---- MODULE Spec2Model ----
(***************************************************************************)
(* Travel planner (React + Leaflet): search resolver, view state and the   *)
(* MapController, booking ledger with localStorage persistence.            *)
(*                                                                         *)
(* Representation.  A JavaScript string is a sequence of one-character     *)
(* strings.  A coordinate is the JavaScript number times 10^4 and a zoom   *)
(* level is the number times 10, so that every number of the program is an *)
(* integer (48.8566 is 488566, zoom 2.5 is 25).  null is the empty         *)
(* sequence and a non-null value v is <<v>>.  The character U+2014 of one  *)
(* catalog summary is written "u2014".                                     *)
(*                                                                         *)
(* crashed holds once a render has thrown: React removes the whole tree,   *)
(* and no handler of the page runs any more.  openedFor and lastOp are     *)
(* history variables: the destination openBooking was last called with     *)
(* while the modal is open, and the last event with its inputs.            *)
(***************************************************************************)
EXTENDS Integers, Sequences, FiniteSets, TLC

VARIABLES query, results, selected, viewport, bookings, showBooking,
          storage, mapView, moveendPending, inflight, now, crashed,
          openedFor, lastOp

vars == <<query, results, selected, viewport, bookings, showBooking,
          storage, mapView, moveendPending, inflight, now, crashed,
          openedFor, lastOp>>

-----------------------------------------------------------------------------
(* Bounds of the model. *)

\* bookings the ledger may hold before booking creation is no longer explored
MaxBookings == 2
\* geocoding requests in flight at one time
MaxInflight == 1
\* largest reading of the millisecond clock, Date.now(); the page is first
\* opened at reading 1
MaxClock == 2

-----------------------------------------------------------------------------
(* JavaScript values. *)

Num(n) == [t |-> "num", n |-> n, s |-> <<>>]
Str(s) == [t |-> "str", n |-> 0, s |-> s]

None == <<>>
Some(v) == <<v>>

Range(f) == {f[i] : i \in DOMAIN f}

-----------------------------------------------------------------------------
(* String.prototype.trim, toLowerCase, includes. *)

WhiteSpace == {" ", "\t", "\n"}

RECURSIVE TrimStart(_)
TrimStart(s) ==
  IF s # <<>> /\ Head(s) \in WhiteSpace THEN TrimStart(Tail(s)) ELSE s

RECURSIVE TrimEnd(_)
TrimEnd(s) ==
  IF s # <<>> /\ s[Len(s)] \in WhiteSpace
  THEN TrimEnd(SubSeq(s, 1, Len(s) - 1))
  ELSE s

Trim(s) == TrimEnd(TrimStart(s))

UpperCase ==
  <<"A","B","C","D","E","F","G","H","I","J","K","L","M",
    "N","O","P","Q","R","S","T","U","V","W","X","Y","Z">>

LowerCase ==
  <<"a","b","c","d","e","f","g","h","i","j","k","l","m",
    "n","o","p","q","r","s","t","u","v","w","x","y","z">>

ToLowerChar(c) ==
  IF \E i \in DOMAIN UpperCase : UpperCase[i] = c
  THEN LowerCase[CHOOSE i \in DOMAIN UpperCase : UpperCase[i] = c]
  ELSE c

RECURSIVE ToLowerCase(_)
ToLowerCase(s) ==
  IF s = <<>> THEN <<>> ELSE <<ToLowerChar(Head(s))>> \o ToLowerCase(Tail(s))

Includes(s, sub) ==
  \E i \in 0..(Len(s) - Len(sub)) : SubSeq(s, i + 1, i + Len(sub)) = sub

-----------------------------------------------------------------------------
(* The destination catalog. *)

SAMPLE_DESTINATIONS ==
  <<
    [id |-> Num(1),
     name |-> <<"P","a","r","i","s",","," ","F","r","a","n","c","e">>,
     coords |-> <<488566, 23522>>,
     summary |->
      <<"R","o","m","a","n","t","i","c"," ","c","i","t","y",","," ","r","i","c","h",
        " ","m","u","s","e","u","m","s",","," ","E","i","f","f","e","l"," ",
        "T","o","w","e","r",".">>],
    [id |-> Num(2),
     name |-> <<"T","o","k","y","o",","," ","J","a","p","a","n">>,
     coords |-> <<356895, 1396917>>,
     summary |->
      <<"U","l","t","r","a","-","m","o","d","e","r","n"," ","c","i","t","y"," ","w",
        "i","t","h"," ","u","n","i","q","u","e"," ","c","u","l","t","u","r",
        "e"," ","a","n","d"," ","f","o","o","d",".">>],
    [id |-> Num(3),
     name |-> <<"N","e","w"," ","Y","o","r","k",","," ","U","S","A">>,
     coords |-> <<407128, -740060>>,
     summary |->
      <<"C","i","t","y"," ","t","h","a","t"," ","n","e","v","e","r"," ","s","l","e",
        "e","p","s"," ","u2014"," ","c","u","l","t","u","r","e",","," ","f",
        "i","n","a","n","c","e",","," ","a","n","d"," ","f","o","o","d",".">>],
    [id |-> Num(4),
     name |-> <<"G","o","a",","," ","I","n","d","i","a">>,
     coords |-> <<152993, 737898>>,
     summary |->
      <<"B","e","a","c","h","e","s",","," ","n","i","g","h","t","l","i","f","e",",",
        " ","a","n","d"," ","r","e","l","a","x","e","d"," ","v","i","b","e",
        ".">>]
  >>

-----------------------------------------------------------------------------
(* parseFloat on the decimal strings of a geocoding record, and the        *)
(* decimal digits of a non-negative integer.                               *)

DigitChars == <<"0","1","2","3","4","5","6","7","8","9">>

IsDigit(c) == \E i \in DOMAIN DigitChars : DigitChars[i] = c

DigitValue(c) == (CHOOSE i \in DOMAIN DigitChars : DigitChars[i] = c) - 1

\* the longest prefix of s made of digits
RECURSIVE DigitPrefix(_)
DigitPrefix(s) ==
  IF s # <<>> /\ IsDigit(Head(s))
  THEN <<Head(s)>> \o DigitPrefix(Tail(s))
  ELSE <<>>

RECURSIVE DigitsValue(_)
DigitsValue(s) ==
  IF s = <<>> THEN 0
  ELSE 10 * DigitsValue(SubSeq(s, 1, Len(s) - 1)) + DigitValue(s[Len(s)])

\* the first four decimals of a fraction, as an integer in 0..9999
FractionValue(f) ==
  DigitsValue(SubSeq(f \o <<"0","0","0","0">>, 1, 4))

\* parseFloat(s) * 10^4 for a string "[-]digits[.digits]"; characters after
\* the number are ignored as parseFloat ignores them
ParseFloat(s) ==
  LET t    == TrimStart(s)
      neg  == t # <<>> /\ Head(t) = "-"
      u    == IF neg THEN Tail(t) ELSE t
      ip   == DigitPrefix(u)
      rest == SubSeq(u, Len(ip) + 1, Len(u))
      fp   == IF rest # <<>> /\ Head(rest) = "." THEN DigitPrefix(Tail(rest))
              ELSE <<>>
      v    == 10000 * DigitsValue(ip) + FractionValue(fp)
  IN  IF neg THEN 0 - v ELSE v

RECURSIVE DecimalDigits(_)
DecimalDigits(n) ==
  IF n < 10 THEN <<DigitChars[n + 1]>>
  ELSE DecimalDigits(n \div 10) \o <<DigitChars[(n % 10) + 1]>>

\* new Date().toISOString() at clock reading t: a string that names t
ToISOString(t) == <<"T">> \o DecimalDigits(t) \o <<"Z">>

-----------------------------------------------------------------------------
(* JSON.stringify and JSON.parse of the booking collection.  A JSON text   *)
(* is a sequence of lexical tokens.                                        *)

Punct(c)  == [k |-> c, s |-> <<>>, n |-> 0]
StrTok(s) == [k |-> "str", s |-> s, n |-> 0]
NumTok(n) == [k |-> "num", s |-> <<>>, n |-> n]

ValueTok(v) == IF v.t = "num" THEN NumTok(v.n) ELSE StrTok(v.s)
TokValue(t) == IF t.k = "num" THEN Num(t.n) ELSE Str(t.s)

KeyId      == <<"i","d">>
KeyName    == <<"n","a","m","e">>
KeyCoords  == <<"c","o","o","r","d","s">>
KeySummary == <<"s","u","m","m","a","r","y">>
KeyDest    == <<"d","e","s","t">>
KeyEmail   == <<"e","m","a","i","l">>
KeyDate    == <<"d","a","t","e">>

Member(key, toks) == <<StrTok(key), Punct(":")>> \o toks

\* coords written as [longitude, latitude]
StringifyDest_LonLat(d) ==
  <<Punct("{")>>
  \o Member(KeyId, <<ValueTok(d.id)>>) \o <<Punct(",")>>
  \o Member(KeyName, <<StrTok(d.name)>>) \o <<Punct(",")>>
  \o Member(KeyCoords, <<Punct("["), NumTok(d.coords[2]), Punct(","),
                         NumTok(d.coords[1]), Punct("]")>>) \o <<Punct(",")>>
  \o Member(KeySummary, <<StrTok(d.summary)>>)
  \o <<Punct("}")>>

StringifyDest(d) ==
  <<Punct("{")>>
  \o Member(KeyId, <<ValueTok(d.id)>>) \o <<Punct(",")>>
  \o Member(KeyName, <<StrTok(d.name)>>) \o <<Punct(",")>>
  \o Member(KeyCoords, <<Punct("["), NumTok(d.coords[1]), Punct(","),
                         NumTok(d.coords[2]), Punct("]")>>) \o <<Punct(",")>>
  \o Member(KeySummary, <<StrTok(d.summary)>>)
  \o <<Punct("}")>>

StringifyBooking(b) ==
  <<Punct("{")>>
  \o Member(KeyId, <<NumTok(b.id)>>) \o <<Punct(",")>>
  \o Member(KeyDest, StringifyDest(b.dest)) \o <<Punct(",")>>
  \o Member(KeyName, <<StrTok(b.name)>>) \o <<Punct(",")>>
  \o Member(KeyEmail, <<StrTok(b.email)>>) \o <<Punct(",")>>
  \o Member(KeyDate, <<StrTok(b.date)>>)
  \o <<Punct("}")>>

RECURSIVE StringifyElements(_)
StringifyElements(bs) ==
  IF bs = <<>> THEN <<>>
  ELSE IF Len(bs) = 1 THEN StringifyBooking(bs[1])
  ELSE StringifyBooking(bs[1]) \o <<Punct(",")>> \o StringifyElements(Tail(bs))

JSON_stringify(bs) == <<Punct("[")>> \o StringifyElements(bs) \o <<Punct("]")>>

\* the number of tokens of one destination object and of one booking object
DestTokens == Len(StringifyDest(SAMPLE_DESTINATIONS[1]))
BookingTokens == DestTokens + 20

IsKey(t, i, key) ==
  /\ i + 1 <= Len(t)
  /\ t[i] = StrTok(key)
  /\ t[i + 1] = Punct(":")

IsTok(t, i, kinds) == i <= Len(t) /\ t[i].k \in kinds

\* the destination object whose first token is t[i]
ParseDest(t, i) ==
  LET ok ==
        /\ IsTok(t, i, {"{"})
        /\ IsKey(t, i + 1, KeyId)      /\ IsTok(t, i + 3, {"num", "str"})
        /\ IsTok(t, i + 4, {","})
        /\ IsKey(t, i + 5, KeyName)    /\ IsTok(t, i + 7, {"str"})
        /\ IsTok(t, i + 8, {","})
        /\ IsKey(t, i + 9, KeyCoords)  /\ IsTok(t, i + 11, {"["})
        /\ IsTok(t, i + 12, {"num"})   /\ IsTok(t, i + 13, {","})
        /\ IsTok(t, i + 14, {"num"})   /\ IsTok(t, i + 15, {"]"})
        /\ IsTok(t, i + 16, {","})
        /\ IsKey(t, i + 17, KeySummary) /\ IsTok(t, i + 19, {"str"})
        /\ IsTok(t, i + 20, {"}"})
  IN  [ok |-> ok,
       value |-> IF ok
                 THEN <<[id |-> TokValue(t[i + 3]),
                         name |-> t[i + 7].s,
                         coords |-> <<t[i + 12].n, t[i + 14].n>>,
                         summary |-> t[i + 19].s]>>
                 ELSE <<>>]

\* the booking object whose first token is t[i]
ParseBooking(t, i) ==
  LET j    == i + 7 + DestTokens
      dest == ParseDest(t, i + 7)
      ok   ==
        /\ IsTok(t, i, {"{"})
        /\ IsKey(t, i + 1, KeyId)    /\ IsTok(t, i + 3, {"num"})
        /\ IsTok(t, i + 4, {","})
        /\ IsKey(t, i + 5, KeyDest)  /\ dest.ok
        /\ IsTok(t, j, {","})
        /\ IsKey(t, j + 1, KeyName)  /\ IsTok(t, j + 3, {"str"})
        /\ IsTok(t, j + 4, {","})
        /\ IsKey(t, j + 5, KeyEmail) /\ IsTok(t, j + 7, {"str"})
        /\ IsTok(t, j + 8, {","})
        /\ IsKey(t, j + 9, KeyDate)  /\ IsTok(t, j + 11, {"str"})
        /\ IsTok(t, j + 12, {"}"})
  IN  [ok |-> ok,
       value |-> IF ok
                 THEN <<[id |-> t[i + 3].n,
                         dest |-> dest.value[1],
                         name |-> t[j + 3].s,
                         email |-> t[j + 7].s,
                         date |-> t[j + 11].s]>>
                 ELSE <<>>]

\* the element whose first token is t[i], a number or a booking object,
\* and the number of its tokens
ParseElement(t, i) ==
  IF IsTok(t, i, {"num"})
  THEN [ok |-> TRUE, value |-> <<Num(t[i].n)>>, tokens |-> 1]
  ELSE [ok |-> ParseBooking(t, i).ok, value |-> ParseBooking(t, i).value,
        tokens |-> BookingTokens]

\* the elements of the array from t[i] on, appended to acc
RECURSIVE ParseElements(_, _, _)
ParseElements(t, i, acc) ==
  LET b == ParseElement(t, i)
      e == i + b.tokens
  IN  IF ~b.ok THEN [ok |-> FALSE, value |-> <<>>]
      ELSE IF IsTok(t, e, {"]"}) /\ e = Len(t)
           THEN [ok |-> TRUE, value |-> acc \o b.value]
      ELSE IF IsTok(t, e, {","})
           THEN ParseElements(t, e + 1, acc \o b.value)
      ELSE [ok |-> FALSE, value |-> <<>>]

\* JSON.parse(text) for a text that is an array of numbers and bookings; ok
\* is FALSE where JSON.parse throws a SyntaxError
JSON_parse(t) ==
  IF ~IsTok(t, 1, {"["}) THEN [ok |-> FALSE, value |-> <<>>]
  ELSE IF Len(t) = 2 /\ IsTok(t, 2, {"]"}) THEN [ok |-> TRUE, value |-> <<>>]
  ELSE ParseElements(t, 2, <<>>)

-----------------------------------------------------------------------------
(* Inputs of the model: what the user types and what the collaborators     *)
(* answer.                                                                 *)

\* texts typed into the search box: empty, all white space, a query that
\* matches two catalog names after trimming and lower-casing, and a query
\* that matches none
Queries ==
  { <<>>,
    <<" ", "\t">>,
    <<" ", "A", "N", " ">>,
    <<"z", "z">> }

\* what the name and email inputs of the booking modal hold at submit
NameInputs == { <<" ", "\t">>, <<" ", "A", "d", "a", " ">> }
EmailInputs ==
  { <<>>, <<"a","d","a","@","e","x","a","m","p","l","e",".","c","o","m">> }

\* records of a geocoding response
GeocodeRecord1 ==
  [display_name |-> <<"P","u","n","e",","," ","I","n","d","i","a">>,
   lat |-> <<"1","8",".","5","2">>,
   lon |-> <<"7","3",".","8","5">>]

GeocodeRecord2 ==
  [display_name |-> <<"L","i","m","a",","," ","P","e","r","u">>,
   lat |-> <<"-","1","2",".","0","4","6","4">>,
   lon |-> <<"-","7","7",".","0","4","2","8">>]

\* how a geocoding request ends: fetch rejects, res.json() rejects, the body
\* is a JSON object (not an array), the body is null, or the body is an array
FetchOutcomes ==
  { [kind |-> "reject", data |-> <<>>],
    [kind |-> "badjson", data |-> <<>>],
    [kind |-> "notarray", data |-> <<>>],
    [kind |-> "null", data |-> <<>>],
    [kind |-> "array", data |-> <<>>],
    [kind |-> "array", data |-> <<GeocodeRecord1>>],
    [kind |-> "array", data |-> <<GeocodeRecord1, GeocodeRecord2>>] }

\* the queries and the outcomes of the ledger's specification
LedgerQueries == { <<"z", "z">> }

LedgerOutcomes ==
  { [kind |-> "array", data |-> <<GeocodeRecord1>>] }

\* positions the user can drag or zoom the map to
GestureViews ==
  { [latitude |-> 100000, longitude |-> 200000, zoom |-> 40] }

\* a text in storage that JSON.parse rejects
CorruptText == <<Punct("["), Punct("{")>>

\* a text in storage that JSON.parse accepts and that is no ledger: [0]
NumberArrayText == <<Punct("["), NumTok(0), Punct("]")>>

\* a booking made in an earlier session, at clock reading 0
StoredBooking ==
  [id |-> 0,
   dest |-> SAMPLE_DESTINATIONS[4],
   name |-> <<"A", "d", "a">>,
   email |-> <<"a","d","a","@","e","x","a","m","p","l","e",".","c","o","m">>,
   date |-> ToISOString(0)]

\* what localStorage holds under "tp_bookings" when the page is first opened
InitialStorage ==
  { None, Some(CorruptText), Some(NumberArrayText),
    Some(JSON_stringify(<<>>)), Some(JSON_stringify(<<StoredBooking>>)) }

-----------------------------------------------------------------------------
(* State. *)

DefaultViewport == [latitude |-> 488566, longitude |-> 23522, zoom |-> 25]

FoundZoom == 60
CloseZoom == 100

ViewportAt(d, z) ==
  [latitude |-> d.coords[1], longitude |-> d.coords[2], zoom |-> z]

\* the center of v with the zoom of prev
Merge_CenterOnly(prev, v) ==
  [f \in DOMAIN prev |-> IF f \in DOMAIN v \ {"zoom"} THEN v[f] ELSE prev[f]]

\* { ...prev, ...v }
Merge(prev, v) ==
  [f \in (DOMAIN prev) \cup (DOMAIN v) |->
     IF f \in DOMAIN v THEN v[f] ELSE prev[f]]

\* the bookings state initializer
LoadBookings(st) ==
  IF st = None THEN <<>>
  ELSE IF JSON_parse(st[1]).ok THEN JSON_parse(st[1]).value
  ELSE <<>>

\* the booking list of the first render reads b.dest.name of every element
\* b of bookings: a TypeError where b.dest is undefined
RenderThrows(bs) == \E i \in DOMAIN bs : "dest" \notin DOMAIN bs[i]

\* setItem with the ledger of the render before the mutation
Persist_Stale(bs) == Some(JSON_stringify(bookings))

\* setItem with the ledger without its newest booking
Persist_Tail(bs) == Some(JSON_stringify(IF bs = <<>> THEN bs ELSE Tail(bs)))

\* the persistence effect
Persist(bs) == Some(JSON_stringify(bs))

\* the last event: its handler, how many times map.setView ran in it, and
\* its inputs (the booking id and the answer to the confirm dialog of
\* cancelBooking, the input values of handleConfirmBooking, the kind and
\* the number of records of a geocoding response)
Op(name, n) ==
  [op |-> name, setViews |-> n, id |-> 0, confirmed |-> FALSE,
   name |-> <<>>, email |-> <<>>, kind |-> ""]

\* MapController's first effect, run because the component function was
\* re-created by a render: map.setView(vp).  The widget ends at vp; when it
\* was not already resting there it may animate, and then reports "moveend"
\* later, after the effect that subscribes handleMoveEnd has run.
Rendered(m, pending, vp) ==
  /\ mapView' = vp
  /\ moveendPending' \in IF m = vp /\ ~pending THEN {FALSE} ELSE BOOLEAN

NotRendered == UNCHANGED <<mapView, moveendPending>>

Init ==
  /\ query = <<>>
  /\ results = SAMPLE_DESTINATIONS
  /\ selected = None
  /\ viewport = DefaultViewport
  /\ \E st \in InitialStorage :
       /\ bookings = LoadBookings(st)
       /\ crashed = RenderThrows(bookings)
       /\ storage = IF crashed THEN st ELSE Persist(bookings)
  /\ showBooking = FALSE
  /\ mapView = DefaultViewport
  /\ moveendPending = FALSE
  /\ inflight = 0
  /\ now = 1
  /\ openedFor = None
  /\ lastOp = Op("mount", IF crashed THEN 0 ELSE 1)

-----------------------------------------------------------------------------
(* Search. *)

\* the filter without toLowerCase
LocalMatches_CaseSensitive(q) ==
  SelectSeq(SAMPLE_DESTINATIONS, LAMBDA d : Includes(d.name, q))

\* SAMPLE_DESTINATIONS.filter(d => d.name.toLowerCase().includes(q.toLowerCase()))
LocalMatches(q) ==
  SelectSeq(SAMPLE_DESTINATIONS,
            LAMBDA d : Includes(ToLowerCase(d.name), ToLowerCase(q)))

\* (data || []).map((p, i) => ({ id: `osm-${i}`, ... })), from index i on
RECURSIVE PlacesFrom(_, _)
PlacesFrom(data, i) ==
  IF i > Len(data) THEN <<>>
  ELSE <<[id |-> Str(<<"o","s","m","-">> \o DecimalDigits(i - 1)),
          name |-> data[i].display_name,
          coords |-> <<ParseFloat(data[i].lat), ParseFloat(data[i].lon)>>,
          summary |-> data[i].display_name]>>
       \o PlacesFrom(data, i + 1)

Places(data) == PlacesFrom(data, 1)

\* onChange of the search box
setQuery(q) ==
  /\ ~crashed
  /\ query' = q
  /\ IF q = query
     THEN NotRendered /\ lastOp' = Op("setQuery", 0)
     ELSE Rendered(mapView, moveendPending, viewport) /\ lastOp' = Op("setQuery", 1)
  /\ UNCHANGED <<results, selected, viewport, bookings, showBooking, storage, inflight, now, crashed, openedFor>>

\* an empty query returning without setResults
SearchEmpty_NoOp ==
  /\ NotRendered
  /\ lastOp' = Op("search", 0)
  /\ UNCHANGED <<results, selected, viewport, inflight>>

\* handleSearch with an empty trimmed query
SearchEmpty ==
  /\ results' = SAMPLE_DESTINATIONS
  /\ IF results = SAMPLE_DESTINATIONS
     THEN NotRendered /\ lastOp' = Op("search", 0)
     ELSE Rendered(mapView, moveendPending, viewport) /\ lastOp' = Op("search", 1)
  /\ UNCHANGED <<selected, viewport, inflight>>

\* local matches listed without selecting the first
SearchLocal_NoSelect(local) ==
  /\ results' = local
  /\ Rendered(mapView, moveendPending, viewport)
  /\ lastOp' = Op("search", 1)
  /\ UNCHANGED <<selected, viewport, inflight>>

\* handleSearch with local matches
SearchLocal(local) ==
  /\ results' = local
  /\ selected' = Some(local[1])
  /\ viewport' = ViewportAt(local[1], FoundZoom)
  /\ Rendered(mapView, moveendPending, viewport')
  /\ lastOp' = Op("search", 1)
  /\ UNCHANGED <<inflight>>

\* no local match shown as an empty result set, without the request
SearchRemote_NoRequest ==
  /\ results' = <<>>
  /\ Rendered(mapView, moveendPending, viewport)
  /\ lastOp' = Op("search", 1)
  /\ UNCHANGED <<selected, viewport, inflight>>

\* handleSearch up to its await: the geocoding request is issued
SearchRemote ==
  /\ inflight < MaxInflight
  /\ inflight' = inflight + 1
  /\ NotRendered
  /\ lastOp' = Op("search", 0)
  /\ UNCHANGED <<results, selected, viewport>>

handleSearch ==
  /\ ~crashed
  /\ LET q == Trim(query)
         local == LocalMatches(q)
     IN  IF q = <<>> THEN SearchEmpty
         ELSE IF Len(local) > 0 THEN SearchLocal(local)
         ELSE SearchRemote
  /\ UNCHANGED <<query, bookings, showBooking, storage, now, crashed, openedFor>>

\* a catch block that leaves the result set as it is
RemoteResults_KeepsOld(outcome) ==
  IF outcome.kind \in {"reject", "badjson", "notarray"} THEN results
  ELSE Places(outcome.data)

\* the results handleSearch sets after its await
RemoteResults(outcome) ==
  IF outcome.kind \in {"reject", "badjson", "notarray"} THEN <<>>
  ELSE Places(outcome.data)

\* handleSearch from its await on, for one of the requests in flight
FetchSettle(outcome) ==
  /\ ~crashed
  /\ inflight > 0
  /\ inflight' = inflight - 1
  /\ LET places == RemoteResults(outcome)
     IN  /\ results' = places
         /\ IF outcome.kind \in {"null", "array"} /\ Len(places) > 0
            THEN /\ selected' = Some(places[1])
                 /\ viewport' = ViewportAt(places[1], FoundZoom)
            ELSE UNCHANGED <<selected, viewport>>
  /\ Rendered(mapView, moveendPending, viewport')
  /\ lastOp' = [Op("fetchSettle", 1) EXCEPT !.kind = outcome.kind,
                                           !.id = Len(outcome.data)]
  /\ UNCHANGED <<query, bookings, showBooking, storage, now, crashed, openedFor>>

\* the Reset button
Reset ==
  /\ ~crashed
  /\ query' = <<>>
  /\ results' = SAMPLE_DESTINATIONS
  /\ viewport' = DefaultViewport
  /\ Rendered(mapView, moveendPending, viewport')
  /\ lastOp' = Op("reset", 1)
  /\ UNCHANGED <<selected, bookings, showBooking, storage,
                 inflight, now, crashed, openedFor>>

-----------------------------------------------------------------------------
(* Selection and viewport. *)

\* the destinations with a Book and a Zoom button: the result list and map
\* popups, and the detail panel of the selected destination
Shown == Range(results) \cup Range(selected)

\* the View button of a result
View(d) ==
  /\ ~crashed
  /\ d \in Range(results)
  /\ selected' = Some(d)
  /\ viewport' = ViewportAt(d, FoundZoom)
  /\ Rendered(mapView, moveendPending, viewport')
  /\ lastOp' = Op("view", 1)
  /\ UNCHANGED <<query, results, bookings, showBooking, storage, inflight, now, crashed, openedFor>>

\* the Zoom button of a popup or of the detail panel
Zoom(d) ==
  /\ ~crashed
  /\ d \in Shown
  /\ viewport' = ViewportAt(d, CloseZoom)
  /\ Rendered(mapView, moveendPending, viewport')
  /\ lastOp' = Op("zoom", 1)
  /\ UNCHANGED <<query, results, selected, bookings, showBooking, storage, inflight, now, crashed, openedFor>>

\* the Go button of a booking
Go(b) ==
  /\ ~crashed
  /\ b \in Range(bookings)
  /\ viewport' = ViewportAt(b.dest, FoundZoom)
  /\ Rendered(mapView, moveendPending, viewport')
  /\ lastOp' = Op("go", 1)
  /\ UNCHANGED <<query, results, selected, bookings, showBooking, storage, inflight, now, crashed, openedFor>>

\* the user drags or zooms the map to v; the widget reports "moveend" and
\* handleMoveEnd calls onViewportChange with the map's center and zoom
UserGesture(v) ==
  /\ ~crashed
  /\ v # mapView
  /\ viewport' = Merge(viewport, v)
  /\ Rendered(v, FALSE, viewport')
  /\ lastOp' = Op("gesture", 1)
  /\ UNCHANGED <<query, results, selected, bookings, showBooking, storage, inflight, now, crashed, openedFor>>

\* the widget reports "moveend" at the end of a move that map.setView
\* started; handleMoveEnd calls onViewportChange
MoveEnd ==
  /\ ~crashed
  /\ moveendPending
  /\ viewport' = Merge(viewport, mapView)
  /\ Rendered(mapView, FALSE, viewport')
  /\ lastOp' = Op("moveend", 1)
  /\ UNCHANGED <<query, results, selected, bookings, showBooking, storage, inflight, now, crashed, openedFor>>

-----------------------------------------------------------------------------
(* Bookings. *)

\* the booking modal is rendered
ModalShown == showBooking /\ selected # None

openBooking(d) ==
  /\ ~crashed
  /\ d \in Shown
  /\ selected' = Some(d)
  /\ showBooking' = TRUE
  /\ IF selected = Some(d) /\ showBooking
     THEN NotRendered /\ lastOp' = Op("openBooking", 0)
     ELSE Rendered(mapView, moveendPending, viewport)
          /\ lastOp' = Op("openBooking", 1)
  /\ openedFor' = Some(d)
  /\ UNCHANGED <<query, results, viewport, bookings, storage, inflight, now, crashed>>

\* the Cancel button of the modal
CloseBooking ==
  /\ ~crashed
  /\ ModalShown
  /\ showBooking' = FALSE
  /\ Rendered(mapView, moveendPending, viewport)
  /\ lastOp' = Op("closeBooking", 1)
  /\ openedFor' = None
  /\ UNCHANGED <<query, results, selected, viewport, bookings, storage, inflight, now, crashed>>

\* the check without the email
Rejected_NameOnly(name, email) == name = <<>>

\* !name || !email
Rejected(name, email) == name = <<>> \/ email = <<>>

\* the booking made at clock reading t for the selected destination
newBooking(name, email, t) ==
  [id |-> t,
   dest |-> selected[1],
   name |-> name,
   email |-> email,
   date |-> ToISOString(t)]

\* [...b, newBooking]
Prepend_Appends(b, bs) == bs \o <<b>>

\* [newBooking, ...b]
Prepend(b, bs) == <<b>> \o bs

\* handleConfirmBooking, the inputs of the modal holding nameValue and
\* emailValue and Date.now() reading t
handleConfirmBooking(nameValue, emailValue, t) ==
  /\ ~crashed
  /\ ModalShown
  /\ t >= now
  /\ LET name == Trim(nameValue)
         email == Trim(emailValue)
     IN  IF Rejected(name, email)
         THEN /\ lastOp' = [Op("confirm", 0) EXCEPT !.name = nameValue,
                                                    !.email = emailValue]
              /\ NotRendered
              /\ UNCHANGED <<bookings, storage, showBooking, now, openedFor>>
         ELSE /\ Len(bookings) < MaxBookings
              /\ bookings' = Prepend(newBooking(name, email, t), bookings)
              /\ storage' = Persist(bookings')
              /\ showBooking' = FALSE
              /\ openedFor' = None
              /\ now' = t
              /\ Rendered(mapView, moveendPending, viewport)
              /\ lastOp' = [Op("confirm", 1) EXCEPT !.name = nameValue,
                                                    !.email = emailValue]
  /\ UNCHANGED <<query, results, selected, viewport, inflight, crashed>>

\* b.filter((x) => x.id === id)
Without_Inverted(bs, id) == SelectSeq(bs, LAMBDA x : x.id = id)

\* b.filter((x) => x.id !== id)
Without(bs, id) == SelectSeq(bs, LAMBDA x : x.id # id)

\* cancelBooking(id) without the confirm dialog
cancelBooking_Unasked(id, confirmed) ==
  /\ ~crashed
  /\ bookings' = Without(bookings, id)
  /\ storage' = Persist(bookings')
  /\ Rendered(mapView, moveendPending, viewport)
  /\ lastOp' = IF confirmed
               THEN [Op("cancel", 1) EXCEPT !.id = id, !.confirmed = TRUE]
               ELSE Op("cancel", 1)
  /\ UNCHANGED <<query, results, selected, viewport, showBooking, inflight, now, crashed, openedFor>>

\* cancelBooking(id), the user answering the confirm dialog with confirmed
cancelBooking(id, confirmed) ==
  /\ ~crashed
  /\ IF confirmed
     THEN /\ bookings' = Without(bookings, id)
          /\ storage' = Persist(bookings')
          /\ Rendered(mapView, moveendPending, viewport)
          /\ lastOp' = [Op("cancel", 1) EXCEPT !.id = id, !.confirmed = TRUE]
     ELSE /\ UNCHANGED <<bookings, storage>>
          /\ NotRendered
          /\ lastOp' = Op("cancel", 0)
  /\ UNCHANGED <<query, results, selected, viewport, showBooking, inflight, now, crashed, openedFor>>

-----------------------------------------------------------------------------
(* The page. *)

\* the page is loaded again: every state is initialised anew and the ledger
\* is read from storage
Reload ==
  /\ query' = <<>>
  /\ results' = SAMPLE_DESTINATIONS
  /\ selected' = None
  /\ viewport' = DefaultViewport
  /\ bookings' = LoadBookings(storage)
  /\ crashed' = RenderThrows(bookings')
  /\ storage' = IF crashed' THEN storage ELSE Persist(bookings')
  /\ showBooking' = FALSE
  /\ mapView' = DefaultViewport
  /\ moveendPending' = FALSE
  /\ inflight' = 0
  /\ openedFor' = None
  /\ lastOp' = Op("mount", IF crashed' THEN 0 ELSE 1)
  /\ UNCHANGED now

\* every event, with every input of the model
Next ==
  \/ \E q \in Queries : setQuery(q)
  \/ handleSearch
  \/ \E outcome \in FetchOutcomes : FetchSettle(outcome)
  \/ Reset
  \/ \E d \in Range(results) : View(d)
  \/ \E d \in Shown : Zoom(d)
  \/ \E b \in Range(bookings) : Go(b)
  \/ \E v \in GestureViews : UserGesture(v)
  \/ MoveEnd
  \/ \E d \in Shown : openBooking(d)
  \/ CloseBooking
  \/ \E nameValue \in NameInputs, emailValue \in EmailInputs, t \in 1..MaxClock :
       handleConfirmBooking(nameValue, emailValue, t)
  \/ \E id \in 0..MaxClock, confirmed \in BOOLEAN : cancelBooking(id, confirmed)
  \/ Reload

Spec == Init /\ [][Next]_vars

\* the search resolver, the view state and the map widget; the ledger is the
\* one read from storage
NextView ==
  \/ \E q \in Queries : setQuery(q)
  \/ handleSearch
  \/ \E outcome \in FetchOutcomes : FetchSettle(outcome)
  \/ Reset
  \/ \E d \in Range(results) : View(d)
  \/ \E d \in Shown : Zoom(d)
  \/ \E b \in Range(bookings) : Go(b)
  \/ \E v \in GestureViews : UserGesture(v)
  \/ MoveEnd
  \/ \E d \in Shown : openBooking(d)
  \/ CloseBooking

SpecView == Init /\ [][NextView]_vars

\* the booking ledger and its persistence; the user books the first result
\* of the catalog or of a remote search, or the selected destination
NextLedger ==
  \/ \E q \in LedgerQueries : setQuery(q)
  \/ handleSearch
  \/ \E outcome \in LedgerOutcomes : FetchSettle(outcome)
  \/ \E d \in Shown \cap {results[i] : i \in DOMAIN results \cap {1}} :
       openBooking(d)
  \/ CloseBooking
  \/ \E nameValue \in NameInputs, emailValue \in EmailInputs, t \in 1..MaxClock :
       handleConfirmBooking(nameValue, emailValue, t)
  \/ \E id \in 0..MaxClock, confirmed \in BOOLEAN : cancelBooking(id, confirmed)
  \/ Reload

SpecLedger == Init /\ [][NextLedger]_vars

-----------------------------------------------------------------------------
(* Properties. *)

\* every character of s is white space
Blank(s) == \A i \in DOMAIN s : s[i] \in WhiteSpace

\* the catalog entries whose name contains q, case-insensitively, in catalog
\* order
CatalogMatches(q) ==
  SelectSeq(SAMPLE_DESTINATIONS,
            LAMBDA d : Includes(ToLowerCase(d.name), ToLowerCase(q)))

\* the application state other than the record of the last event
appState ==
  <<query, results, selected, viewport, bookings, showBooking, storage,
    mapView, moveendPending, inflight, now, crashed, openedFor>>

\* C1: a search whose trimmed query is non-empty and is a case-insensitive
\* substring of at least one catalog name sets the result set to exactly
\* the matching catalog entries and issues no geocoding request.
C1_LocalMatchOnly ==
  [][(/\ lastOp'.op = "search"
      /\ ~Blank(query)
      /\ CatalogMatches(Trim(query)) # <<>>)
     => (/\ results' = CatalogMatches(Trim(query))
         /\ inflight' = inflight)]_vars

C1_Witness ==
  /\ lastOp.op = "search"
  /\ query = <<" ", "A", "N", " ">>
  /\ Len(results) = 2
  /\ results[1] = SAMPLE_DESTINATIONS[1]
  /\ results[2] = SAMPLE_DESTINATIONS[2]
  /\ inflight = 0

\* C2: a search whose trimmed query is non-empty and matches no catalog
\* name issues exactly one geocoding request, and the continuation of the
\* search issues none.
C2_OneRemoteCall ==
  [][/\ (/\ lastOp'.op = "search"
         /\ ~Blank(query)
         /\ CatalogMatches(Trim(query)) = <<>>)
        => inflight' = inflight + 1
     /\ lastOp'.op = "fetchSettle" => inflight' = inflight - 1]_vars

C2_Witness ==
  /\ lastOp.op = "search"
  /\ query = <<"z", "z">>
  /\ inflight = 1

\* C3: a search with an empty or all-white-space query sets the result set
\* to the full catalog in catalog order, whatever it was, and issues no
\* geocoding request.
C3_BlankQueryFullCatalog ==
  [][(lastOp'.op = "search" /\ Blank(query))
     => (/\ results' = SAMPLE_DESTINATIONS
         /\ inflight' = inflight)]_vars

C3_Witness ==
  /\ lastOp.op = "search"
  /\ lastOp.setViews = 1
  /\ query = <<" ", "\t">>
  /\ results = SAMPLE_DESTINATIONS

\* C4: confirming a booking with a name or an email that is empty or all
\* white space changes neither the ledger nor storage nor any other state.
C4_BlankContactRejected ==
  [][(/\ lastOp'.op = "confirm"
      /\ Blank(lastOp'.name) \/ Blank(lastOp'.email))
     => UNCHANGED appState]_vars

C4_Witness ==
  /\ lastOp.op = "confirm"
  /\ lastOp.name = <<" ", "\t">>
  /\ ~Blank(lastOp.email)
  /\ Len(bookings) > 0

\* C5: loading the page again reads from storage the ledger as it was, the
\* same bookings in the same order.
C5_ReloadRoundTrip ==
  [][lastOp'.op = "mount" => bookings' = bookings]_vars

C5_Witness ==
  /\ lastOp.op = "mount"
  /\ Len(bookings) = 2
  /\ bookings[1].dest.id.t = "str"
  /\ bookings[2].dest.id.t = "num"
  /\ bookings[1].id > bookings[2].id

\* C6: a confirmed cancelBooking of an id that no booking has leaves the
\* ledger and storage as they were.
C6_CancelAbsentNoOp ==
  [][(/\ lastOp'.op = "cancel"
      /\ lastOp'.confirmed
      /\ \A i \in DOMAIN bookings : bookings[i].id # lastOp'.id)
     => (bookings' = bookings /\ storage' = storage)]_vars

\* a confirmed cancel after which the ledger is full removed nothing
C6_Witness ==
  /\ lastOp.op = "cancel"
  /\ lastOp.confirmed
  /\ Len(bookings) = MaxBookings
  /\ \A i \in DOMAIN bookings : bookings[i].id # lastOp.id

\* C7: a viewport change made through setViewport runs map.setView exactly
\* once, and the widget's report of that move never runs handleMoveEnd,
\* which would call setViewport again.
C7_OneSetViewNoEcho ==
  /\ lastOp.op \in {"view", "zoom", "go", "reset"} => lastOp.setViews = 1
  /\ lastOp.op # "moveend"

\* C8: a confirmed booking with a non-blank name and email puts one booking
\* at the head of the ledger, for the destination selected at that time,
\* and keeps the earlier bookings as they were, in their order.
C8_CreatePrepends ==
  [][(/\ lastOp'.op = "confirm"
      /\ ~Blank(lastOp'.name)
      /\ ~Blank(lastOp'.email))
     => (/\ Len(bookings') = Len(bookings) + 1
         /\ selected # None
         /\ Head(bookings').dest = selected[1]
         /\ Tail(bookings') = bookings)]_vars

C8_Witness ==
  /\ lastOp.op = "confirm"
  /\ ~Blank(lastOp.name)
  /\ ~Blank(lastOp.email)
  /\ Len(bookings) = 2
  /\ bookings[1].dest = selected[1]
  /\ bookings[1].dest # bookings[2].dest

\* C9: every booking of the ledger after a step, other than the one the
\* step created, is a booking of the ledger before the step with the same
\* destination record.
C9_DestinationSnapshot ==
  [][\A j \in DOMAIN bookings' :
       \/ crashed'
       \/ lastOp'.op = "confirm" /\ j = 1
       \/ \E i \in DOMAIN bookings :
            /\ bookings[i].id = bookings'[j].id
            /\ bookings[i].date = bookings'[j].date
            /\ bookings[i].dest = bookings'[j].dest]_vars

\* a booking for a geocoded destination is in the ledger while the result
\* set and the selection have been replaced
C9_Witness ==
  /\ lastOp.op = "openBooking"
  /\ \E i \in DOMAIN bookings : bookings[i].dest.id.t = "str"
  /\ results = SAMPLE_DESTINATIONS
  /\ selected # None
  /\ selected[1].id.t = "num"

\* C10: when a geocoding request fails or answers with no record, the
\* result set becomes empty and the selection stays; the next search, reset
\* and query edit are accepted.
C10_EmptyRemoteResult ==
  /\ [][(/\ lastOp'.op = "fetchSettle"
         /\ lastOp'.kind \in {"reject", "badjson", "notarray"} \/ lastOp'.id = 0)
        => (results' = <<>> /\ selected' = selected)]_vars
  /\ [](lastOp.op = "fetchSettle" /\ results = <<>>
        => /\ ENABLED handleSearch
           /\ ENABLED Reset
           /\ ENABLED (\E q \in Queries : setQuery(q)))

C10_Witness ==
  /\ lastOp.op = "fetchSettle"
  /\ lastOp.kind = "notarray"
  /\ results = <<>>
  /\ selected # None

\* the step is a search that produced its result set: handleSearch answered
\* from the catalog, or the continuation of handleSearch after its request
SearchProduced ==
  \/ lastOp'.op = "search" /\ inflight' = inflight
  \/ lastOp'.op = "fetchSettle"

\* the viewport on the first result at zoom 6
OnFirstResult(rs) ==
  [latitude |-> rs[1].coords[1], longitude |-> rs[1].coords[2], zoom |-> 60]

\* C11, as stated: whenever a search produces a non-empty result set, the
\* first result becomes the selected destination and the viewport is set to
\* its coordinates at zoom 6.
C11_FirstResultSelected_AnySearch ==
  [][(SearchProduced /\ results' # <<>>)
     => (/\ selected' = Some(results'[1])
         /\ viewport' = OnFirstResult(results'))]_vars

\* C11, amended: whenever a search with a non-empty trimmed query produces
\* a non-empty result set, from the catalog or from the geocoding response,
\* the first result becomes the selected destination and the viewport is
\* set to its coordinates at zoom 6.
C11_FirstResultSelected ==
  [][(/\ SearchProduced
      /\ lastOp'.op = "search" => ~Blank(query)
      /\ results' # <<>>)
     => (/\ selected' = Some(results'[1])
         /\ viewport' = OnFirstResult(results'))]_vars

\* the catalog search " AN " has listed Paris and Tokyo and selected Paris
C11_Witness ==
  /\ lastOp.op = "search"
  /\ Len(results) = 2
  /\ results[2] = SAMPLE_DESTINATIONS[2]
  /\ selected = Some(SAMPLE_DESTINATIONS[1])
  /\ viewport = [latitude |-> 488566, longitude |-> 23522, zoom |-> 60]

\* C12: when the page is opened with no value in storage, or with a value
\* that does not encode a booking collection, the ledger is initialised
\* empty and the page renders: no error leaves the initializer or the
\* render of the ledger.
C12_BadStorageEmptyLedger ==
  /\ \A st \in {None, Some(CorruptText)} : LoadBookings(st) = <<>>
  /\ storage = Some(NumberArrayText) => bookings = <<>>
  /\ ~crashed

\* the step is a successful create or a confirmed cancel
Mutation ==
  \/ lastOp'.op = "confirm" /\ ~Blank(lastOp'.name) /\ ~Blank(lastOp'.email)
  \/ lastOp'.op = "cancel" /\ lastOp'.confirmed

\* C13: after every successful create or cancel the text stored under the
\* key is the serialisation of the whole ledger as that mutation left it,
\* and no step stores the serialisation of any other ledger, so that the
\* snapshot of a later mutation is never replaced by an earlier one.
C13_PersistenceFollowsMutations ==
  [][/\ Mutation => storage' = Some(JSON_stringify(bookings'))
     /\ storage' # storage => storage' = Some(JSON_stringify(bookings'))]_vars

\* two bookings were made at readings 1 and 2 and the later one cancelled:
\* storage holds the ledger with the earlier one only
C13_Witness ==
  /\ lastOp.op = "cancel"
  /\ lastOp.confirmed
  /\ lastOp.id = 2
  /\ now = 2
  /\ Len(bookings) = 1
  /\ bookings[1].id = 1
  /\ storage = Some(JSON_stringify(bookings))

\* the last event was a Reset, or a search answered at once (from the
\* catalog, or with the full catalog); a request in flight was issued before
\* that event, since handleSearch renders nothing when it issues one
NewerSearchStarted ==
  \/ lastOp.op = "reset"
  \/ lastOp.op = "search" /\ lastOp.setViews = 1

\* C14: a geocoding response that arrives after a newer search or a reset
\* has started leaves the result set, the selection and the viewport of the
\* newer search as they are.
C14_StaleResponseDiscarded ==
  [][(lastOp'.op = "fetchSettle" /\ NewerSearchStarted)
     => UNCHANGED <<results, selected, viewport>>]_vars

\* C15: when the widget reports the end of a user gesture, the viewport
\* takes the reported center and zoom, and map.setView is not run for that
\* change.
C15_GestureNoSetView ==
  [][lastOp'.op = "gesture"
     => (viewport' \in GestureViews /\ lastOp'.setViews = 0)]_vars

\* the viewports a navigation request of the step can ask for: the default
\* one, and a listed, selected or booked destination at zoom 6 or zoom 10
NavigationRequests ==
  {DefaultViewport}
  \cup {[latitude |-> d.coords[1], longitude |-> d.coords[2], zoom |-> z] :
          d \in Range(results') \cup Range(results) \cup Range(selected)
                \cup {bookings[i].dest : i \in DOMAIN bookings},
          z \in {60, 100}}

\* C16: every step that changes the viewport sets all of it from one
\* source: a navigation request (search, View, Zoom, Go, Reset) gives its
\* center and its zoom, a report of the widget gives the widget's center
\* and zoom; no step keeps a field of the old viewport beside a new one.
C16_ViewportFromOneSource ==
  [][\/ viewport' = viewport
     \/ /\ lastOp'.op \in {"search", "fetchSettle", "view", "zoom", "go", "reset"}
        /\ viewport' \in NavigationRequests
     \/ lastOp'.op = "gesture" /\ viewport' \in GestureViews
     \/ lastOp'.op = "moveend" /\ viewport' = mapView]_vars

\* the map was dragged away after a destination had been selected
C16_Witness ==
  /\ lastOp.op = "gesture"
  /\ viewport \in GestureViews
  /\ selected # None
  /\ viewport.zoom # 60
  /\ viewport.latitude # selected[1].coords[1]

\* C17: cancelBooking(id) changes the ledger only when the user confirms:
\* declined, it leaves the ledger and storage as they were; confirmed, it
\* removes the booking with that id and keeps every other booking in its
\* order.
C17_CancelNeedsConfirmation ==
  [][lastOp'.op = "cancel"
     => IF lastOp'.confirmed
        THEN bookings' = SelectSeq(bookings, LAMBDA x : x.id # lastOp'.id)
        ELSE UNCHANGED <<bookings, storage>>]_vars

\* the user declined to cancel with two bookings in the ledger
C17_Witness ==
  /\ lastOp.op = "cancel"
  /\ ~lastOp.confirmed
  /\ Len(bookings) = 2
  /\ storage = Some(JSON_stringify(bookings))

\* C18: no two bookings of the ledger have the same id.
C18_UniqueIds ==
  ~crashed =>
    \A i, j \in DOMAIN bookings : i # j => bookings[i].id # bookings[j].id

\* C19: when the query is cleared, by Reset or by a search with an empty or
\* all-white-space query, the viewport becomes the default one, center
\* (48.8566, 2.3522) at zoom 2.5, and the result set the full catalog.
C19_ClearedQueryResetsViewport ==
  [][(lastOp'.op = "reset" \/ (lastOp'.op = "search" /\ Blank(query)))
     => (/\ viewport' = [latitude |-> 488566, longitude |-> 23522, zoom |-> 25]
         /\ results' = SAMPLE_DESTINATIONS)]_vars

\* C20: a confirmed booking with a non-blank name and email is for the
\* destination openBooking was called with when the modal was opened,
\* whatever happened while the modal was open.
C20_BookingForOpenedDestination ==
  [][(/\ lastOp'.op = "confirm"
      /\ ~Blank(lastOp'.name)
      /\ ~Blank(lastOp'.email))
     => (/\ openedFor # None
         /\ Head(bookings').dest = openedFor[1])]_vars

====
